---- MODULE Spec2Model ----
(***************************************************************************)
(* Model of nebullvm/inference_learners/tvm.py: the Apache TVM inference   *)
(* learners (PyTorch and TensorFlow adapters), their predict sequence over *)
(* a TVM graph executor, and save / load of the compiled library together  *)
(* with its metadata record.                                               *)
(***************************************************************************)
EXTENDS Integers, Sequences, FiniteSets, TLC

VARIABLES
    handles,       \* the learner objects: their dataclass fields
    executors,     \* the GraphModule behind each learner: bound inputs, last run
    dir,           \* the directories on disk: metadata file and engine file
    call,          \* each caller's predict invocation: position and locals
    last,          \* the last save / load invocation and its outcome
    lastSupplied,  \* history: per handle and position, the tensor last supplied there
    bindFault,     \* history: some set_input on the handle has failed
    savedFrom      \* history: per path, the handle whose save last completed there

vars == <<handles, executors, dir, call, last, lastSupplied, bindFault, savedFrom>>

-----------------------------------------------------------------------------
(* Bounds of the model *)

MaxTensors == 3
MaxHandles == 2

(* Small value sets the inputs are drawn from *)

Threads == {1, 2}
HandleIds == 1 .. MaxHandles
Paths == {"p1", "p2"}
Names == {"x", "y"}
NameLists == {<<"x">>, <<"x", "y">>, <<"y", "x">>}
Values == {"a", "b"}
TorchDevices == {"cpu", "cuda:0"}
Frameworks == {"PYTORCH", "TENSORFLOW"}
Libs == {"libA"}
Targets == {"llvm"}
ParamSets ==
    { [type |-> "ModelParams", batch_size |-> 2, output_sizes |-> << <<10>> >>],
      [type |-> "ModelParams", batch_size |-> 1, output_sizes |-> << <<10>>, <<3, 4>> >>] }

NoHandle == [cls |-> "none"]
NoExecutor == [state |-> "none"]
Unbound == [kind |-> "unbound"]
NotRun == [state |-> "not run"]
NoFile == [file |-> "missing"]
NoReturn == [kind |-> "none"]

Min(a, b) == IF a <= b THEN a ELSE b

IsPrefix(s, t) == Len(s) <= Len(t) /\ SubSeq(t, 1, Len(s)) = s

-----------------------------------------------------------------------------
(* Host tensors and raw arrays *)

TorchTensor(v, d) == [fw |-> "torch", val |-> v, dev |-> d]
TfTensor(v) == [fw |-> "tf", val |-> v]
NdArray(v) == [kind |-> "ndarray", val |-> v]

SeqsUpTo(S, n) == UNION { [1 .. k -> S] : k \in 0 .. n }

\* the argument lists a caller can pass to predict of a learner of class cls
InputTuples(cls) ==
    IF cls = "PYTORCH"
    THEN { [i \in DOMAIN vs |-> TorchTensor(vs[i], d)] :
               vs \in SeqsUpTo(Values, MaxTensors), d \in TorchDevices }
    ELSE { [i \in DOMAIN vs |-> TfTensor(vs[i])] : vs \in SeqsUpTo(Values, MaxTensors) }

\* torch.Tensor.get_device(): -1 for a host tensor, the accelerator index otherwise
get_device(tensor) == IF tensor.dev = "cpu" THEN -1 ELSE 0

\* PytorchApacheTVMInferenceLearner._convert_device
convert_device(device) == IF device \in Int THEN "cpu" ELSE device

\* input_tensor.cpu().detach().numpy() / input_tensor.numpy()
to_numpy(tensor) == NdArray(tensor.val)

\* torch.from_numpy(output_array).to(device) / tf.convert_to_tensor(output_array)
to_host(cls, array, device) ==
    IF cls = "PYTORCH"
    THEN [fw |-> "torch", val |-> array.val, shape |-> array.shape, dev |-> device]
    ELSE [fw |-> "tf", val |-> array.val, shape |-> array.shape]

-----------------------------------------------------------------------------
(* The learner and its graph executor *)

\* tvm.device(str(target_device), 0)
tvm_device(target_device) == [device_type |-> target_device, device_id |-> 0]

\* GraphModule(lib["default"](dev)): no input bound, nothing run
GraphModule(lib, dev) ==
    [lib |-> lib, dev |-> dev, inputs |-> [n \in Names |-> Unbound], outputs |-> NotRun]

\* ApacheTVMInferenceLearner.from_runtime_module: the fields of cls(...)
from_runtime_module(cls, network_parameters, lib, target_device, input_names) ==
    [cls |-> cls,
     network_parameters |-> network_parameters,
     input_names |-> input_names,
     lib |-> lib,
     target |-> target_device]

\* a variant that leaves the batch dimension out of the buffer
output_buffer_shape_without_batch(network_parameters, i) ==
    network_parameters.output_sizes[i]

\* the buffer tvm.nd.empty((batch_size, *output_size))
output_buffer_shape(network_parameters, i) ==
    <<network_parameters.batch_size>> \o network_parameters.output_sizes[i]

\* graph_executor_module.get_output(i, buffer).numpy(): the buffer, filled with
\* output i of the last run (the backend computes it from the inputs bound then)
get_output(executor, i, shape) ==
    [kind |-> "ndarray", val |-> [out |-> i, of |-> executor.outputs], shape |-> shape]

\* the events of the backend a predict invocation makes, as recorded in call.trace
SetInputEvent(name, array, ok) == [op |-> "set_input", arg |-> <<name, array>>, ok |-> ok]
RunEvent(ok) == [op |-> "run", arg |-> <<>>, ok |-> ok]
GetOutputEvent(i, shape, ok) == [op |-> "get_output", arg |-> <<i, shape>>, ok |-> ok]

IdleCall ==
    [pc |-> "idle", h |-> 0, inputs |-> <<>>, device |-> "", idx |-> 0,
     trace |-> <<>>, ranWith |-> NotRun, outs |-> <<>>, ret |-> NoReturn,
     err |-> "", overlap |-> FALSE]

InProgress(t) == call[t].pc \in {"zip", "outputs"}

\* another invocation is in progress on the handle caller t is (to be) using
Overlaps(t, h) == \E u \in Threads \ {t} : InProgress(u) /\ call[u].h = h

\* callers other than t whose invocation on h now overlaps one more invocation
MarkOverlap(c, t, h) ==
    [u \in Threads |->
        IF u # t /\ c[u].pc \in {"zip", "outputs"} /\ c[u].h = h
        THEN [c[u] EXCEPT !.overlap = TRUE] ELSE c[u]]

-----------------------------------------------------------------------------
(* predict *)

\* a variant in which every invocation starts from unbound inputs
EntryInputs_cleared(executor) == [n \in Names |-> Unbound]

\* the inputs bound so far are kept when a new invocation starts
EntryInputs(executor) == executor.inputs

\* a variant that falls back to the host device when no tensor is passed
PredictEntry_default_device(cls, ts) ==
    IF cls = "PYTORCH" /\ Len(ts) > 0
    THEN [pc |-> "zip", err |-> "", device |-> "cpu"]
    ELSE [pc |-> "zip", err |-> "", device |-> IF cls = "PYTORCH" THEN "cpu" ELSE ""]

\* PytorchApacheTVMInferenceLearner.predict, line 107: the device of the first
\* input; TensorflowApacheTVMInferenceLearner.predict has no such step
PredictEntry(cls, ts) ==
    IF cls = "PYTORCH"
    THEN IF Len(ts) = 0
         THEN [pc |-> "raised", err |-> "IndexError", device |-> ""]
         ELSE [pc |-> "zip", err |-> "", device |-> convert_device(get_device(ts[1]))]
    ELSE [pc |-> "zip", err |-> "", device |-> ""]

\* a caller invokes predict(*ts) on handle h
Predict(t, h, ts) ==
    /\ ~InProgress(t)
    /\ handles[h] # NoHandle
    /\ LET e == PredictEntry(handles[h].cls, ts)
           started == [IdleCall EXCEPT !.pc = e.pc, !.h = h, !.inputs = ts,
                                       !.device = e.device, !.err = e.err,
                                       !.overlap = Overlaps(t, h)]
       IN /\ call' = IF e.pc = "zip"
                     THEN MarkOverlap([call EXCEPT ![t] = started], t, h)
                     ELSE [call EXCEPT ![t] = started]
          /\ executors' = [executors EXCEPT ![h].inputs = EntryInputs(executors[h])]
          /\ lastSupplied' =
                 [lastSupplied EXCEPT ![h] =
                     [j \in DOMAIN lastSupplied[h] |->
                         IF e.pc = "zip" /\ j <= Len(ts) THEN <<ts[j]>>
                         ELSE lastSupplied[h][j]]]
    /\ UNCHANGED <<handles, dir, last, bindFault, savedFrom>>

\* a variant that swallows the failure and goes on with the next pair
SetInputFailure_swallowed(c, ev) ==
    [c EXCEPT !.trace = Append(@, ev), !.idx = @ + 1]

\* what a failing set_input does to the invocation
SetInputFailure(c, ev) ==
    [c EXCEPT !.trace = Append(@, ev), !.pc = "raised", !.err = "set_input"]

\* a variant that stops one pair early
zip_has_next_one_short(names, inputs, idx) == idx + 1 < Len(names) /\ idx + 1 <= Len(inputs)

\* zip(self.input_names, input_arrays) has a next pair after idx pairs
zip_has_next(names, inputs, idx) == idx + 1 <= Len(names) /\ idx + 1 <= Len(inputs)

\* a variant that takes the names from the end of the list
zip_pair_names_reversed(names, inputs, i) ==
    <<names[Len(names) + 1 - i], NdArray(inputs[i].val)>>

\* the i-th pair of zip(self.input_names, input_arrays): the arrays are the
\* generator of converted input tensors, consumed in step with the names
zip_pair(names, inputs, i) == <<names[i], to_numpy(inputs[i])>>

\* one turn of the loop of _predict_array, lines 41-42: the next (name, array)
\* pair of zip(input_names, input_arrays) goes to set_input
SetInput(t, ok) ==
    LET c == call[t]
        h == c.h
        names == handles[h].input_names
        i == c.idx + 1
    IN /\ c.pc = "zip"
       /\ zip_has_next(names, c.inputs, c.idx)
       /\ LET pair == zip_pair(names, c.inputs, i)
          IN IF ok
             THEN /\ executors' = [executors EXCEPT ![h].inputs[pair[1]] = pair[2]]
                  /\ call' = [call EXCEPT ![t].idx = i,
                                          ![t].trace = Append(@, SetInputEvent(pair[1], pair[2], TRUE))]
                  /\ UNCHANGED bindFault
             ELSE /\ call' = [call EXCEPT ![t] =
                                  SetInputFailure(c, SetInputEvent(pair[1], pair[2], FALSE))]
                  /\ bindFault' = [bindFault EXCEPT ![h] = TRUE]
                  /\ UNCHANGED executors
       /\ UNCHANGED <<handles, dir, last, lastSupplied, savedFrom>>

\* the inputs left bound once run has executed
InputsAfterRun(executor) == executor.inputs

\* _predict_array, line 43: zip is exhausted, graph_executor_module.run()
Run(t, ok) ==
    LET c == call[t]
        h == c.h
        names == handles[h].input_names
    IN /\ c.pc = "zip"
       /\ ~zip_has_next(names, c.inputs, c.idx)
       /\ IF ok
          THEN /\ executors' = [executors EXCEPT
                                   ![h].outputs = [ran |-> executors[h].inputs],
                                   ![h].inputs = InputsAfterRun(executors[h])]
               /\ call' = [call EXCEPT ![t].pc = "outputs", ![t].idx = 0,
                                       ![t].ranWith = [ran |-> executors[h].inputs],
                                       ![t].trace = Append(@, RunEvent(TRUE))]
          ELSE /\ call' = [call EXCEPT ![t].pc = "raised", ![t].err = "run",
                                       ![t].trace = Append(@, RunEvent(FALSE))]
               /\ UNCHANGED executors
       /\ UNCHANGED <<handles, dir, last, lastSupplied, bindFault, savedFrom>>

\* what a failing get_output does to the invocation: the tuple under
\* construction is dropped with the exception
GetOutputFailure(c, ev) ==
    [c EXCEPT !.trace = Append(@, ev), !.pc = "raised", !.err = "get_output",
              !.outs = <<>>]

\* the index get_output is called with for the k-th element (k from 1) of the
\* returned tuple: enumerate(output_sizes)
OutputIndex(k) == k - 1

\* one element of tuple(... for output_array in output_arrays), lines 45-58 and
\* 113-116 / 131-134: get_output into a fresh buffer, then back to a host tensor
GetOutput(t, ok) ==
    LET c == call[t]
        h == c.h
        params == handles[h].network_parameters
        k == c.idx + 1
    IN /\ c.pc = "outputs"
       /\ k <= Len(params.output_sizes)
       /\ LET shape == output_buffer_shape(params, k)
              array == get_output(executors[h], OutputIndex(k), shape)
          IN call' = [call EXCEPT ![t] =
                 IF ok
                 THEN [c EXCEPT !.idx = k,
                                !.trace = Append(@, GetOutputEvent(OutputIndex(k), shape, TRUE)),
                                !.outs = Append(@, to_host(handles[h].cls, array, c.device))]
                 ELSE GetOutputFailure(c, GetOutputEvent(OutputIndex(k), shape, FALSE))]
       /\ UNCHANGED <<handles, executors, dir, last, lastSupplied, bindFault, savedFrom>>

\* predict returns the tuple
Return(t) ==
    LET c == call[t]
    IN /\ c.pc = "outputs"
       /\ c.idx = Len(handles[c.h].network_parameters.output_sizes)
       /\ call' = [call EXCEPT ![t].pc = "returned",
                               ![t].ret = [kind |-> "tuple", items |-> c.outs]]
       /\ UNCHANGED <<handles, executors, dir, last, lastSupplied, bindFault, savedFrom>>

-----------------------------------------------------------------------------
(* One learner, one caller at a time, a backend that may fail *)

NoOp == [op |-> "none"]

InitCommon ==
    /\ executors = [h \in HandleIds |->
                      IF h = 1 THEN GraphModule(handles[1].lib, tvm_device(handles[1].target))
                      ELSE NoExecutor]
    /\ call = [t \in Threads |-> IdleCall]
    /\ last = NoOp
    /\ lastSupplied = [h \in HandleIds |-> [j \in 1 .. 2 |-> <<>>]]
    /\ bindFault = [h \in HandleIds |-> FALSE]
    /\ savedFrom = [p \in Paths |-> 0]

Init ==
    /\ \E cls \in Frameworks, np \in ParamSets, lib \in Libs,
          target \in Targets, names \in NameLists :
          handles = [h \in HandleIds |->
                        IF h = 1 THEN from_runtime_module(cls, np, lib, target, names)
                        ELSE NoHandle]
    /\ dir = [p \in Paths |-> [meta |-> NoFile, engine |-> NoFile]]
    /\ InitCommon

Next ==
    \/ \E ts \in InputTuples(handles[1].cls) : Predict(1, 1, ts)
    \/ \E ok \in BOOLEAN : SetInput(1, ok)
    \/ \E ok \in BOOLEAN : Run(1, ok)
    \/ \E ok \in BOOLEAN : GetOutput(1, ok)
    \/ Return(1)

Spec == Init /\ [][Next]_vars

-----------------------------------------------------------------------------
(* One learner, two callers whose invocations may interleave *)

\* the callers of this scenario pass as many tensors as the learner has input
\* names, or one fewer, all on the host
ConcInputTuples ==
    {ts \in InputTuples(handles[1].cls) :
        /\ Len(ts) \in {Len(handles[1].input_names) - 1, Len(handles[1].input_names)}
        /\ \A i \in DOMAIN ts : handles[1].cls = "PYTORCH" => ts[i].dev = "cpu"}

InitConc ==
    /\ \E cls \in Frameworks, names \in {<<"x", "y">>, <<"x">>} :
          handles = [h \in HandleIds |->
                        IF h = 1
                        THEN from_runtime_module(cls,
                                 [type |-> "ModelParams", batch_size |-> 2,
                                  output_sizes |-> << <<10>> >>],
                                 "libA", "llvm", names)
                        ELSE NoHandle]
    /\ dir = [p \in Paths |-> [meta |-> NoFile, engine |-> NoFile]]
    /\ InitCommon

NextConc ==
    \/ \E t \in Threads : \E ts \in ConcInputTuples : Predict(t, 1, ts)
    \/ \E t \in Threads : SetInput(t, TRUE)
    \/ \E t \in Threads : Run(t, TRUE)
    \/ \E t \in Threads : GetOutput(t, TRUE)
    \/ \E t \in Threads : Return(t)

SpecConc == InitConc /\ [][NextConc]_vars

-----------------------------------------------------------------------------
(* save and load *)

\* the extra keyword arguments a caller passes to save: by key
KwargSets == {{}, {"note"}, {"target"}}
EngineFile(lib) == [file |-> "engine", lib |-> lib]

\* LearnerMetadata.from_model(self, input_names=..., target=..., **kwargs): the
\* record metadata.save writes; each key holds its value, or nothing when the
\* record lacks the key
metadata_from_model(handle, kwargs) ==
    [file |-> "metadata",
     class_name |-> handle.cls,
     network_parameters |->
         << [batch_size |-> handle.network_parameters.batch_size,
             output_sizes |-> handle.network_parameters.output_sizes] >>,
     input_names |-> <<handle.input_names>>,
     target |-> <<handle.target>>,
     extra |-> kwargs]

\* a variant that ignores the stored batch size
ModelParams_batch_one(d) ==
    [type |-> "ModelParams", batch_size |-> 1, output_sizes |-> d.output_sizes]

\* ModelParams(**metadata["network_parameters"])
ModelParams(d) ==
    [type |-> "ModelParams", batch_size |-> d.batch_size, output_sizes |-> d.output_sizes]

\* a variant that removes the metadata again when the export fails
DirAfterSave_rollback(d, record, lib, outcome) ==
    CASE outcome = "ok" -> [meta |-> record, engine |-> [file |-> "engine", lib |-> lib]]
      [] OTHER -> [d EXCEPT !.meta = NoFile]

\* what save leaves in the directory d: metadata.save(path) first, then
\* self.lib.export_library(path / engine); nothing is undone when a step fails
DirAfterSave(d, record, lib, outcome) ==
    CASE outcome = "metadata.save failed" -> d
      [] outcome = "export_library failed" -> [d EXCEPT !.meta = record]
      [] OTHER -> [meta |-> record, engine |-> EngineFile(lib)]

\* ApacheTVMInferenceLearner.save(path, **kwargs); env is how the two writes
\* fare ("ok" when both succeed)
Save(h, p, kwargs, env) ==
    /\ handles[h] # NoHandle
    /\ \A t \in Threads : ~InProgress(t)
    /\ LET clash == kwargs \cap {"input_names", "target"} # {}
           outcome == IF clash THEN "TypeError" ELSE env
       IN /\ dir' = IF clash THEN dir
                    ELSE [dir EXCEPT ![p] =
                            DirAfterSave(dir[p], metadata_from_model(handles[h], kwargs),
                                         handles[h].lib, outcome)]
          /\ last' = [op |-> "save", cls |-> "", path |-> p, kwargs |-> kwargs,
                      result |-> outcome, handle |-> h]
          /\ savedFrom' = [savedFrom EXCEPT ![p] =
                              CASE outcome = "ok" -> h
                                [] outcome = "export_library failed" -> 0
                                [] OTHER -> @]
    /\ UNCHANGED <<handles, executors, call, lastSupplied, bindFault>>

\* LearnerMetadata.read(path): the record, or the error for a missing file
MetadataRead(d) ==
    IF d.meta = NoFile THEN [err |-> "ArtifactNotFoundError"] ELSE [err |-> "", record |-> d.meta]

\* a variant that translates the loader's failure
load_module_translated(d) ==
    IF d.engine = NoFile THEN [err |-> "ArtifactNotFoundError"]
    ELSE [err |-> "", lib |-> d.engine.lib]

\* tvm.runtime.load_module(path / engine): the library, or TVM's own error
load_module(d) ==
    IF d.engine = NoFile THEN [err |-> "TVMError"] ELSE [err |-> "", lib |-> d.engine.lib]

\* ApacheTVMInferenceLearner.load, lines 72-76, in the order of the code: the
\* first failing step raises and nothing catches it
LoadSteps(d) ==
    LET m == MetadataRead(d)
        l == load_module(d)
    IN IF m.err # "" THEN [err |-> m.err]
       ELSE IF m.record.network_parameters = <<>> THEN [err |-> "KeyError"]
       ELSE IF l.err # "" THEN [err |-> l.err]
       ELSE IF m.record.target = <<>> THEN [err |-> "KeyError"]
       ELSE IF m.record.input_names = <<>> THEN [err |-> "KeyError"]
       ELSE [err |-> "",
             network_parameters |-> ModelParams(m.record.network_parameters[1]),
             lib |-> l.lib,
             target_device |-> m.record.target[1],
             input_names |-> m.record.input_names[1]]

FreeHandles == {h \in HandleIds : handles[h] = NoHandle}

\* cls.load(path): a classmethod, so the caller names the class
Load(cls, p) ==
    /\ \A t \in Threads : ~InProgress(t)
    /\ LoadSteps(dir[p]).err = "" => FreeHandles # {}
    /\ LET r == LoadSteps(dir[p])
           g == CHOOSE h \in FreeHandles : \A k \in FreeHandles : h <= k
       IN IF r.err # ""
          THEN /\ last' = [op |-> "load", cls |-> cls, path |-> p, kwargs |-> {},
                           result |-> r.err, handle |-> 0]
               /\ UNCHANGED <<handles, executors>>
          ELSE /\ handles' = [handles EXCEPT ![g] =
                                 from_runtime_module(cls, r.network_parameters, r.lib,
                                                     r.target_device, r.input_names)]
               /\ executors' = [executors EXCEPT ![g] =
                                   GraphModule(r.lib, tvm_device(r.target_device))]
               /\ last' = [op |-> "load", cls |-> cls, path |-> p, kwargs |-> {},
                           result |-> "ok", handle |-> g]
    /\ UNCHANGED <<dir, call, lastSupplied, bindFault, savedFrom>>

-----------------------------------------------------------------------------
(* save and load over directories that may hold earlier or damaged artifacts *)

SaveOutcomes == {"ok", "metadata.save failed", "export_library failed"}

DamagedMetadata ==
    LET full == metadata_from_model(
                    from_runtime_module("PYTORCH",
                        [type |-> "ModelParams", batch_size |-> 2, output_sizes |-> << <<10>> >>],
                        "libA", "llvm", <<"x", "y">>), {})
    IN { [full EXCEPT !.target = <<>>],
         [full EXCEPT !.input_names = <<>>],
         [full EXCEPT !.network_parameters = <<>>] }

\* what a directory may hold before the program first touches it
FoundDirs ==
    {[meta |-> NoFile, engine |-> NoFile]}
      \cup {[meta |-> m, engine |-> EngineFile("libA")] : m \in DamagedMetadata}

InitPersist ==
    /\ \E cls \in Frameworks, np \in ParamSets :
          handles = [h \in HandleIds |->
                        IF h = 1 THEN from_runtime_module(cls, np, "libA", "llvm", <<"x", "y">>)
                        ELSE NoHandle]
    /\ \E d \in FoundDirs : dir = [p \in Paths |-> IF p = "p2" THEN d ELSE [meta |-> NoFile, engine |-> NoFile]]
    /\ InitCommon

NextPersist ==
    \/ \E h \in HandleIds, p \in Paths, kwargs \in KwargSets, env \in SaveOutcomes :
          Save(h, p, kwargs, env)
    \/ \E cls \in Frameworks, p \in Paths : Load(cls, p)

SpecPersist == InitPersist /\ [][NextPersist]_vars

-----------------------------------------------------------------------------
(* save, load and predict on the saved and the loaded learner, one at a time *)

\* the callers of this scenario pass the first tensor, or the first two, of one
\* fixed argument list, all on the host
RoundTripInputTuples(h) ==
    {ts \in InputTuples(handles[h].cls) :
        /\ Len(ts) \in {1, 2}
        /\ \A i \in DOMAIN ts :
              /\ ts[i].val = (IF i = 1 THEN "a" ELSE "b")
              /\ handles[h].cls = "PYTORCH" => ts[i].dev = "cpu"}

InitRoundTrip ==
    /\ \E cls \in Frameworks, target \in {"llvm", "cuda"} :
          handles = [h \in HandleIds |->
                        IF h = 1
                        THEN from_runtime_module(cls,
                                 [type |-> "ModelParams", batch_size |-> 2,
                                  output_sizes |-> << <<10>> >>],
                                 "libA", target, <<"x", "y">>)
                        ELSE NoHandle]
    /\ dir = [p \in Paths |-> [meta |-> NoFile, engine |-> NoFile]]
    /\ InitCommon

\* caller 1 uses the learner built by the compiler, caller 2 the loaded ones
CallerOf(h) == IF h = 1 THEN 1 ELSE 2

NextRoundTrip ==
    \/ \E h \in HandleIds :
          /\ handles[h] # NoHandle
          /\ \A u \in Threads : ~InProgress(u)
          /\ \E ts \in RoundTripInputTuples(h) : Predict(CallerOf(h), h, ts)
    \/ \E t \in Threads : SetInput(t, TRUE)
    \/ \E t \in Threads : Run(t, TRUE)
    \/ \E t \in Threads : GetOutput(t, TRUE)
    \/ \E t \in Threads : Return(t)
    \/ \E h \in HandleIds, kwargs \in {{}, {"note"}}, env \in {"ok", "export_library failed"} :
          Save(h, "p1", kwargs, env)
    \/ \E cls \in Frameworks : Load(cls, "p1")

SpecRoundTrip == InitRoundTrip /\ [][NextRoundTrip]_vars

-----------------------------------------------------------------------------
(* Properties of predict *)

NamesOf(c) == handles[c.h].input_names
ParamsOf(c) == handles[c.h].network_parameters
Paired(c) == Min(Len(NamesOf(c)), Len(c.inputs))

\* the backend calls a fault-free predict makes, in order
ExpectedSetInputs(c) ==
    [i \in 1 .. Paired(c) |->
        [op |-> "set_input", arg |-> <<NamesOf(c)[i], NdArray(c.inputs[i].val)>>, ok |-> TRUE]]
ExpectedGetOutputs(c) ==
    [k \in 1 .. Len(ParamsOf(c).output_sizes) |->
        [op |-> "get_output",
         arg |-> <<k - 1, <<ParamsOf(c).batch_size>> \o ParamsOf(c).output_sizes[k]>>,
         ok |-> TRUE]]
ExpectedTrace(c) ==
    ExpectedSetInputs(c) \o << [op |-> "run", arg |-> <<>>, ok |-> TRUE] >> \o ExpectedGetOutputs(c)

CountOp(trace, op) == Cardinality({i \in DOMAIN trace : trace[i].op = op})

BackendErrors == {"set_input", "run", "get_output"}

C2_OutputsPerOutputSizes ==
    \A t \in Threads :
        LET c == call[t]
            k == Len(ParamsOf(c).output_sizes)
        IN /\ c.pc = "returned" =>
                /\ c.ret.kind = "tuple"
                /\ Len(c.ret.items) = k
                /\ \A i \in 1 .. k :
                      /\ c.ret.items[i].shape =
                            <<ParamsOf(c).batch_size>> \o ParamsOf(c).output_sizes[i]
                      /\ c.ret.items[i].val = [out |-> i - 1, of |-> c.ranWith]
                /\ c.trace = ExpectedTrace(c)
           /\ c.pc = "outputs" =>
                /\ c.ret = NoReturn
                /\ IsPrefix(c.trace, ExpectedTrace(c))
                /\ Len(c.trace) = Paired(c) + 1 + c.idx

C2_Witness ==
    \E t \in Threads :
        /\ call[t].pc = "returned"
        /\ ParamsOf(call[t]).batch_size = 2
        /\ ParamsOf(call[t]).output_sizes = << <<10>> >>
        /\ Len(call[t].inputs) = 2
        /\ Len(call[t].ret.items) = 1
        /\ call[t].ret.items[1].shape = <<2, 10>>

\* the part of C3 that holds of both adapters: with a mismatch, no error comes
\* from the pairing, set_input is called for the first min(N, M) pairs only,
\* run once, and the outputs are returned
TruncatesWithoutError(c) ==
    /\ c.pc = "raised" => c.err \in BackendErrors
    /\ c.pc \in {"outputs", "returned"} =>
          /\ SubSeq(c.trace, 1, Paired(c)) = ExpectedSetInputs(c)
          /\ CountOp(c.trace, "set_input") = Paired(c)
          /\ CountOp(c.trace, "run") = 1
    /\ c.pc = "returned" => c.trace = ExpectedTrace(c) /\ c.ret.kind = "tuple"

\* C3 as claimed: for every N names and M # N tensors, M = 0 included, and
\* both adapters, predict raises no error of its own, calls set_input for the
\* first min(N, M) pairs, runs once and returns the outputs.
C3_Claimed_NoErrorOnAnyMismatch ==
    \A t \in Threads :
        LET c == call[t]
        IN (c.pc # "idle" /\ Len(c.inputs) # Len(NamesOf(c))) => TruncatesWithoutError(c)

\* C3 as amended: the same for every mismatch except the PyTorch adapter
\* called with no tensor at all, which raises IndexError before any set_input
\* or run.
C3_TruncatesExceptEmptyTorch ==
    \A t \in Threads :
        LET c == call[t]
        IN (c.pc # "idle" /\ Len(c.inputs) # Len(NamesOf(c))) =>
              IF handles[c.h].cls = "PYTORCH" /\ Len(c.inputs) = 0
              THEN c.pc = "raised" /\ c.err = "IndexError" /\ c.trace = <<>> /\ c.ret = NoReturn
              ELSE TruncatesWithoutError(c)

C3_Witness ==
    \E t \in Threads :
        /\ call[t].pc = "returned"
        /\ handles[call[t].h].cls = "PYTORCH"
        /\ Len(call[t].inputs) = 1
        /\ Len(NamesOf(call[t])) = 2
        /\ CountOp(call[t].trace, "set_input") = 1

\* C5 as claimed: every output tensor the PyTorch adapter returns is on the
\* device the first input tensor is on.
C5_Claimed_OutputsOnInputDevice ==
    \A t \in Threads :
        LET c == call[t]
        IN (c.pc = "returned" /\ handles[c.h].cls = "PYTORCH") =>
              \A i \in DOMAIN c.ret.items : c.ret.items[i].dev = c.inputs[1].dev

\* C7: a failing backend call ends the invocation there: it is the last call
\* made, nothing is retried or skipped, the error reaches the caller and no
\* tuple, partial or not, is returned.
C7_FailFast ==
    \A t \in Threads :
        LET c == call[t]
        IN \A i \in DOMAIN c.trace :
              ~c.trace[i].ok =>
                 /\ i = Len(c.trace)
                 /\ c.pc = "raised"
                 /\ c.err = c.trace[i].op
                 /\ c.ret = NoReturn
                 /\ c.outs = <<>>
                 /\ \A j \in 1 .. i - 1 : c.trace[j].ok
                 /\ IsPrefix([c.trace EXCEPT ![i].ok = TRUE], ExpectedTrace(c))
                 /\ c.err = "set_input" =>
                       CountOp(c.trace, "run") = 0 /\ CountOp(c.trace, "get_output") = 0
                 /\ c.err = "run" =>
                       CountOp(c.trace, "run") = 1 /\ CountOp(c.trace, "get_output") = 0

C7_Witness ==
    \E t \in Threads :
        /\ call[t].pc = "raised"
        /\ call[t].err = "set_input"
        /\ Len(call[t].trace) = 2
        /\ Len(call[t].inputs) = 2

RanOwnInputs(c) ==
    \A j \in 1 .. Len(NamesOf(c)) : c.ranWith.ran[NamesOf(c)[j]] = NdArray(c.inputs[j].val)

\* C9: when invocations on a handle are serialized (no other invocation in
\* progress at any time during this one) and the call supplies as many
\* tensors as there are input names, its run executes with exactly its own
\* inputs and its outputs are those of that run. Unserialized, the witness
\* is reached: a run that executed with a slot bound by the other invocation.
C9_SerializedRunsOwnInputs ==
    \A t \in Threads :
        LET c == call[t]
        IN (/\ c.pc \in {"outputs", "returned"}
            /\ ~c.overlap
            /\ Len(c.inputs) = Len(NamesOf(c))) =>
              /\ RanOwnInputs(c)
              /\ \A i \in DOMAIN c.outs : c.outs[i].val.of = c.ranWith

C9_Witness_Race ==
    \E t \in Threads :
        LET c == call[t]
        IN /\ c.pc = "returned"
           /\ c.overlap
           /\ Len(c.inputs) = Len(NamesOf(c))
           /\ ~RanOwnInputs(c)
           /\ c.trace = ExpectedTrace(c)
           /\ \A i \in DOMAIN c.ret.items : c.ret.items[i].val.of = c.ranWith

-----------------------------------------------------------------------------
(* Properties of save and load *)

LoadedFromSaved == last.op = "load" /\ last.result = "ok" /\ savedFrom[last.path] # 0

\* the fields load must reproduce, all but the class
SameArtifact(g, h) ==
    /\ handles[g].network_parameters = handles[h].network_parameters
    /\ handles[g].input_names = handles[h].input_names
    /\ handles[g].target = handles[h].target
    /\ handles[g].lib = handles[h].lib
    /\ executors[g].lib = handles[h].lib

\* predict on the two learners agrees for the calls selected by Covered
SameOutputs(g, h, Covered(_)) ==
    \A t, u \in Threads :
        (/\ call[t].pc = "returned" /\ call[t].h = h
         /\ call[u].pc = "returned" /\ call[u].h = g
         /\ call[t].inputs = call[u].inputs
         /\ Covered(call[t])) => call[t].ret = call[u].ret

AnyCall(c) == TRUE
SuppliesEveryName(c) == Len(c.inputs) >= Len(NamesOf(c))

\* C4 as claimed: load (of the saved learner's class) after a successful save
\* returns a learner of that class with equal network_parameters, input_names,
\* target and library, and predict on identical inputs returns identical
\* outputs.
C4_Claimed_RoundTrip ==
    (LoadedFromSaved /\ last.cls = handles[savedFrom[last.path]].cls) =>
        LET h == savedFrom[last.path]
            g == last.handle
        IN /\ handles[g].cls = handles[h].cls
           /\ SameArtifact(g, h)
           /\ SameOutputs(g, h, AnyCall)

\* C4 as amended: load returns a learner of the class load was invoked on
\* (the saved learner's class only when that is the class named), with
\* network_parameters, input_names, target and library equal to the saved
\* learner's; predict on identical inputs returns identical outputs when the
\* call supplies at least as many tensors as there are input names.
C4_RoundTripOfFieldsAndFullCalls ==
    LoadedFromSaved =>
        LET h == savedFrom[last.path]
            g == last.handle
        IN /\ handles[g].cls = last.cls
           /\ SameArtifact(g, h)
           /\ SameOutputs(g, h, SuppliesEveryName)

C4_Witness ==
    /\ LoadedFromSaved
    /\ last.handle # savedFrom[last.path]
    /\ handles[last.handle].cls = handles[savedFrom[last.path]].cls
    /\ \E t, u \in Threads :
          /\ call[t].pc = "returned" /\ call[t].h = savedFrom[last.path]
          /\ call[u].pc = "returned" /\ call[u].h = last.handle
          /\ call[t].inputs = call[u].inputs
          /\ Len(call[t].inputs) = 2
          /\ call[t].ret = call[u].ret

RequiredKeysPresent(m) ==
    m.network_parameters # <<>> /\ m.input_names # <<>> /\ m.target # <<>>

\* C6 as claimed: load on a directory lacking the metadata file or the engine
\* file fails with ArtifactNotFoundError and returns no handle; load on a
\* metadata record lacking network_parameters, input_names or target fails
\* with MetadataCorruptError.
C6_Claimed_LoadErrors ==
    last.op = "load" =>
        LET d == dir[last.path]
        IN /\ (d.meta = NoFile \/ d.engine = NoFile) =>
                 last.result = "ArtifactNotFoundError" /\ last.handle = 0
           /\ (d.meta # NoFile /\ d.engine # NoFile /\ ~RequiredKeysPresent(d.meta)) =>
                 last.result = "MetadataCorruptError"

\* What C6, as amended, says of states and of load steps: load returns no
\* handle and lets the first failure, in the order of its steps, reach the
\* caller as the collaborator raised it: the metadata reader's error for a
\* missing metadata file, KeyError for a record without network_parameters,
\* the error of tvm.runtime.load_module for a missing engine file, KeyError
\* for a record without target or input_names.
C6_LoadState ==
    last.op = "load" =>
        LET d == dir[last.path]
        IN /\ last.result =
                 (IF d.meta = NoFile THEN "ArtifactNotFoundError"
                  ELSE IF d.meta.network_parameters = <<>> THEN "KeyError"
                  ELSE IF d.engine = NoFile THEN "TVMError"
                  ELSE IF d.meta.target = <<>> \/ d.meta.input_names = <<>> THEN "KeyError"
                  ELSE "ok")
           /\ last.result # "ok" => last.handle = 0
           /\ last.result = "ok" => handles[last.handle] # NoHandle

C6_LoadStep ==
    (last'.op = "load" /\ last'.result # "ok" /\ call' = call) =>
        handles' = handles /\ executors' = executors

\* C6 as amended: in every state C6_LoadState holds and every failing load is
\* a C6_LoadStep: the first failure propagates untranslated, no handle is made.
C6_LoadPropagatesFirstFailure == [] C6_LoadState /\ [][C6_LoadStep]_vars

C6_Witness ==
    /\ last.op = "load"
    /\ dir[last.path].meta # NoFile
    /\ RequiredKeysPresent(dir[last.path].meta)
    /\ dir[last.path].engine = NoFile
    /\ last.result = "TVMError"
    /\ last.handle = 0

\* the record save writes for handle h: the three fields and the extra keys
SavedRecordOf(m, h, kwargs) ==
    /\ m # NoFile
    /\ m.network_parameters =
          << [batch_size |-> handles[h].network_parameters.batch_size,
              output_sizes |-> handles[h].network_parameters.output_sizes] >>
    /\ m.input_names = <<handles[h].input_names>>
    /\ m.target = <<handles[h].target>>
    /\ m.extra = kwargs

\* What C8 says of states and of save steps: save writes the metadata record,
\* then the engine file, into the one directory and undoes nothing: after a successful save both files are
\* there; after a save whose export failed the record is there and the engine
\* file is as it was (absent in a fresh directory); a save that fails earlier
\* writes nothing; the other directory is untouched; load returns a handle
\* only when both files are present; save leaves every learner unchanged.
C8_SaveState ==
    /\ (last.op = "save" /\ last.result = "ok") =>
          /\ SavedRecordOf(dir[last.path].meta, last.handle, last.kwargs)
          /\ dir[last.path].engine = [file |-> "engine", lib |-> handles[last.handle].lib]
    /\ (last.op = "save" /\ last.result = "export_library failed") =>
          SavedRecordOf(dir[last.path].meta, last.handle, last.kwargs)
    /\ (last.op = "load" /\ last.result = "ok") =>
          dir[last.path].meta # NoFile /\ dir[last.path].engine # NoFile

C8_SaveStep ==
    (last'.op = "save" /\ call' = call) =>
        /\ handles' = handles
        /\ executors' = executors
        /\ \A p \in Paths \ {last'.path} : dir'[p] = dir[p]
        /\ last'.result = "export_library failed" =>
              dir'[last'.path].engine = dir[last'.path].engine
        /\ last'.result \in {"metadata.save failed", "TypeError"} => dir' = dir

\* C8: in every state C8_SaveState holds and every save step is a C8_SaveStep:
\* metadata first, engine second, nothing undone, the learners unchanged.
C8_SaveWritesMetadataThenEngine == [] C8_SaveState /\ [][C8_SaveStep]_vars

C8_Witness ==
    /\ last.op = "save"
    /\ last.result = "export_library failed"
    /\ last.kwargs = {"note"}
    /\ dir[last.path].meta # NoFile
    /\ dir[last.path].engine = NoFile

====
